---- MODULE Spec2Model ----
(***************************************************************************)
(* The compile actor protocol of crates/tinymist/src/actor/typ_client.rs:  *)
(* the client handle (CompileClientActor), the compile driver              *)
(* (CompileDriver::wrap_compile, notify_diagnostics, run_analysis), the    *)
(* notification sink (CompileHandler) and the worker that drains the       *)
(* interrupt queue (CompileServerActor, of typ_server.rs).                 *)
(***************************************************************************)
EXTENDS Integers, Sequences, FiniteSets, TLC

(* ------------------------------ bounds --------------------------------- *)
\* Number of client operations (calls on the CompileClientActor) of a run.
MaxOps == 3
\* Number of threads that call the client handle.
NumCallers == 2

Callers == 1..NumCallers
Ids == 1..MaxOps

(* ------------------------- paths and entries --------------------------- *)
\* Option<T> is the set of at most one element: {} is None, {x} is Some(x).
None == {}
Some(x) == {x}
Unwrap(o) == CHOOSE x \in o : TRUE

\* A std::path::Path by its parts: a drive prefix, a root and the normal
\* components.
Path(prefix, root, comps) == [prefix |-> prefix, root |-> root, comps |-> comps]
DrivePath == Path(TRUE, TRUE, <<"a.typ">>)
RootedPath == Path(FALSE, TRUE, <<"a.typ">>)
UntitledPath == Path(FALSE, TRUE, <<"untitled", "1">>)
RelativePath == Path(FALSE, FALSE, <<"relative", "path.typ">>)
UntitledPrefix == Path(FALSE, TRUE, <<"untitled">>)

Platforms == {"unix", "windows"}
\* The paths a caller can write on a platform (a drive prefix exists on
\* windows only).
PathsOn(pl) ==
    IF pl = "windows"
    THEN {DrivePath, RootedPath, UntitledPath, RelativePath}
    ELSE {RootedPath, UntitledPath, RelativePath}

\* Path::is_absolute: the root on unix, prefix and root on windows.
is_absolute(pl, p) == p.root /\ (pl = "windows" => p.prefix)

\* Path::starts_with: a prefix by whole components.
starts_with(p, base) ==
    /\ p.prefix = base.prefix
    /\ p.root = base.root
    /\ Len(base.comps) <= Len(p.comps)
    /\ SubSeq(p.comps, 1, Len(base.comps)) = base.comps

\* The guard of change_entry: the path is given and neither absolute nor
\* under "/untitled".
EntryPathAbsoluteOnly(pl, path) ==
    path # None /\ ~is_absolute(pl, Unwrap(path))
EntryPathRejected(pl, path) ==
    /\ path # None
    /\ ~is_absolute(pl, Unwrap(path))
    /\ ~starts_with(Unwrap(path), UntitledPrefix)

\* CompileConfig: the configured root, if any.
Configs == {[root |-> None], [root |-> Some("/workspace")]}

\* EntryState: an optional root and an optional main document.
EntryState(root, main) == [root |-> root, main |-> main]

\* CompileConfig::determine_entry: no path gives the entry without a main
\* document; an untitled path is rootless; another path is rooted at the
\* configured root or else at its parent directory.
determine_entry(cfg, path) ==
    IF path = None THEN EntryState(cfg.root, None)
    ELSE IF starts_with(Unwrap(path), UntitledPrefix) THEN EntryState(None, path)
    ELSE IF cfg.root # None THEN EntryState(cfg.root, path)
    ELSE EntryState(Some("/parent"), path)

\* typ_server::is_inactive: the entry has no main document.
is_inactive(e) == e.main = None

(* ------------------------------ messages ------------------------------- *)
\* A message put on the editor channel, the export channel or the document
\* watch point; att is the compile attempt and task the client call that sent
\* it (0: none).
Event(ch, kind, status, diag, ent, doc, att, task) ==
    [ch |-> ch, kind |-> kind, status |-> status, diag |-> diag, entry |-> ent,
     doc |-> doc, att |-> att, task |-> task]
\* EditorRequest::Status(group, status)
Status(s, att) == Event("editor", "Status", s, None, None, 0, att, 0)
\* EditorRequest::Diag(group, diagnostics)
Diag(d, att, task) == Event("editor", "Diag", "", d, None, 0, att, task)
\* ExportRequest::OnTyped
OnTyped(att) == Event("export", "OnTyped", "", None, None, 0, att, 0)
\* ExportRequest::ChangeExportPath(entry)
ChangeExportPath(e, id) == Event("export", "ChangeExportPath", "", None, Some(e), 0, 0, id)
\* doc_tx.send(Some(doc)) on the watch point
Publish(doc, att) == Event("watch", "Publish", "", None, None, doc, att, 0)

\* UnboundedSender::send / watch::Sender::send: the message is delivered
\* while the channel's consumer lives, and the send fails otherwise.
ChSend(live, ev) == IF live THEN <<ev>> ELSE <<>>

\* An interrupt of the worker's queue: Task(closure), Memory(event) or
\* Settle(ack); id names the client call that sent it.
Interrupt(kind, id, op, next) == [kind |-> kind, id |-> id, op |-> op, next |-> next]
Task(id, op, next) == Interrupt("Task", id, op, next)
Memory(id) == Interrupt("Memory", id, "", None)
Settle(id) == Interrupt("Settle", id, "", None)

\* The value a closure returns to its caller.
RetVal(tag, ok, err, seen, analysis, clean) ==
    [tag |-> tag, ok |-> ok, err |-> err, seen |-> seen, analysis |-> analysis,
     clean |-> clean]
NoRet == RetVal(0, TRUE, "", {}, 0, FALSE)

(* --------------------------- analysis bridge --------------------------- *)
\* LspWorld::main_id: the main document of the world's entry.
main_id(e) == e.main

\* The outcomes of loading the main source and preparing the environment.
AnalysisOutcomes == {"ok", "source", "env"}

\* CompileDriver::run_analysis: "" when f was invoked, else the error.
run_analysis_NoRootCheck(e, outcome) ==
    IF main_id(e) = None THEN "main file is not set"
    ELSE IF outcome = "source" THEN "failed to get source"
    ELSE IF outcome = "env" THEN "failed to prepare env"
    ELSE ""
run_analysis(e, outcome) ==
    IF main_id(e) = None THEN "main file is not set"
    ELSE IF e.root = None THEN "root is not set"
    ELSE IF outcome = "source" THEN "failed to get source"
    ELSE IF outcome = "env" THEN "failed to prepare env"
    ELSE ""

\* Analysis::estimated_memory: grows with the memoized entries.
estimated_memory(caches) == Cardinality(caches)

\* Vfs::memory_usage: grows with the shadowed files.
memory_usage(vfs) == Cardinality(vfs)

(* ---------------------------- compile driver --------------------------- *)
\* CompileHandler::push_diagnostics: one Diag message, a failed send is
\* logged.
push_diagnostics(live, d, att, task) == ChSend(live.editor, Diag(d, att, task))

\* tinymist_query::convert_diagnostics: the map of the errors and warnings.
convert_diagnostics(errors, warnings) ==
    errors \cup (IF warnings = None THEN {} ELSE Unwrap(warnings))

\* CompileDriver::notify_diagnostics: the Diag message of an attempt.
notify_diagnostics_Unchecked(live, e, errors, warnings, outcome, att) ==
    IF run_analysis(e, outcome) = ""
    THEN push_diagnostics(live, Some(convert_diagnostics(errors, warnings)), att, 0)
    ELSE push_diagnostics(live, Some({}), att, 0)
notify_diagnostics_Silent(live, e, errors, warnings, outcome, att) ==
    IF run_analysis(e, outcome) = ""
    THEN push_diagnostics(live,
             IF ~is_inactive(e) THEN Some(convert_diagnostics(errors, warnings)) ELSE None,
             att, 0)
    ELSE <<>>
notify_diagnostics(live, e, errors, warnings, outcome, att) ==
    IF run_analysis(e, outcome) = ""
    THEN LET detached == is_inactive(e)
             valid == ~detached
         IN  push_diagnostics(live,
                 IF valid THEN Some(convert_diagnostics(errors, warnings)) ELSE None,
                 att, 0)
    ELSE push_diagnostics(live, None, att, 0)

\* CompileHandler::notify_compile: on a document, the watch publish and the
\* export trigger; then the status (the send is unwrapped).
notify_compile_StatusFirst(live, ok, doc, att) ==
    ChSend(live.editor, Status(IF ok THEN "CompileSuccess" ELSE "CompileError", att))
    \o (IF ok THEN ChSend(live.watch, Publish(doc, att))
                   \o ChSend(live.export, OnTyped(att))
        ELSE <<>>)
notify_compile_PublishAlways(live, ok, doc, att) ==
    ChSend(live.watch, Publish(IF ok THEN doc ELSE 0, att))
    \o (IF ok THEN ChSend(live.export, OnTyped(att)) ELSE <<>>)
    \o ChSend(live.editor, Status(IF ok THEN "CompileSuccess" ELSE "CompileError", att))
notify_compile(live, ok, doc, att) ==
    (IF ok THEN ChSend(live.watch, Publish(doc, att))
                \o ChSend(live.export, OnTyped(att))
     ELSE <<>>)
    \o ChSend(live.editor, Status(IF ok THEN "CompileSuccess" ELSE "CompileError", att))

\* CompileDriver::wrap_compile: the messages of one compile attempt and
\* the result it returns, Ok(doc) or Err. The sends on the editor channel are
\* unwrapped: with the editor gone the attempt panics at the first of them.
wrap_compile_NoCompiling(live, e, ok, errors, warnings, outcome, att) ==
    IF ~live.editor THEN [panic |-> TRUE, res |-> "", evs |-> <<>>]
    ELSE [panic |-> FALSE, res |-> IF ok THEN "Ok" ELSE "Err",
          evs |-> notify_compile(live, ok, att, att)
                  \o notify_diagnostics(live, e, IF ok THEN {} ELSE errors,
                                        warnings, outcome, att)]
wrap_compile(live, e, ok, errors, warnings, outcome, att) ==
    IF ~live.editor THEN [panic |-> TRUE, res |-> "", evs |-> <<>>]
    ELSE [panic |-> FALSE, res |-> IF ok THEN "Ok" ELSE "Err",
          evs |-> ChSend(live.editor, Status("Compiling", att))
                  \o notify_compile(live, ok, att, att)
                  \o notify_diagnostics(live, e, IF ok THEN {} ELSE errors,
                                        warnings, outcome, att)]

(* ------------------------ closures sent by steal ----------------------- *)
\* The state the worker owns: the actor's entry, the world's entry, the
\* shadowed files, the analysis caches, and (kept by the worker's steps)
\* whether a clear_cache task was the last to touch the caches.
WorkerState(ae, we, vfs, caches, clean) ==
    [actor_entry |-> ae, w_entry |-> we, vfs |-> vfs, caches |-> caches,
     clean |-> clean]

\* The closure of change_entry: swap the actor's entry, mutate the world's
\* entry (mfail: mutate_entry returns an error), clear the diagnostics of an
\* inactive entry, report the result of mutate_entry.
change_entry_task_NoClear(id, next, s, live, mfail) ==
    [s |-> WorkerState(next, IF mfail THEN s.w_entry ELSE next, s.vfs, s.caches,
                       s.clean),
     evs |-> <<>>,
     val |-> RetVal(id, ~mfail, IF mfail THEN "failed to change entry" ELSE "",
                    s.vfs, 0, FALSE)]
change_entry_task(id, next, s, live, mfail) ==
    [s |-> WorkerState(next, IF mfail THEN s.w_entry ELSE next, s.vfs, s.caches,
                       s.clean),
     evs |-> IF is_inactive(next) THEN push_diagnostics(live, None, 0, id) ELSE <<>>,
     val |-> RetVal(id, ~mfail, IF mfail THEN "failed to change entry" ELSE "",
                    s.vfs, 0, FALSE)]

\* The closure of clear_cache: the caches are reset to their default.
clear_cache_task_Keep(id, s) ==
    [s |-> s, evs |-> <<>>, val |-> RetVal(id, TRUE, "", s.vfs, 0, FALSE)]
clear_cache_task(id, s) ==
    [s |-> WorkerState(s.actor_entry, s.w_entry, s.vfs, {}, s.clean),
     evs |-> <<>>,
     val |-> RetVal(id, TRUE, "", s.vfs, 0, FALSE)]

\* The closure of collect_server_info: a snapshot, nothing is changed.
collect_server_info_task(id, s) ==
    [s |-> s, evs |-> <<>>,
     val |-> RetVal(id, TRUE, "", s.vfs, estimated_memory(s.caches), s.clean)]

\* The closure of steal_world: run_analysis(f); an analysis that runs
\* memoizes in the caches.
steal_world_task(id, s, outcome) ==
    LET err == run_analysis(s.w_entry, outcome)
    IN  [s |-> IF err = "" THEN WorkerState(s.actor_entry, s.w_entry, s.vfs,
                                         s.caches \cup {"query"}, s.clean)
               ELSE s,
         evs |-> <<>>,
         val |-> RetVal(id, err = "", err, s.vfs, 0, FALSE)]

\* The closure of steal_state: run_analysis(f) with the last successful
\* document handed to f; the document plays no part in run_analysis.
steal_state_task(id, s, outcome) == steal_world_task(id, s, outcome)

\* The operations whose closure goes through run_analysis.
AnalysisOps == {"steal_world", "steal_state"}

\* A closure of a caller of steal or steal_async: it reads the worker's
\* state and returns what it saw, tagged with the call.
user_task(id, s) ==
    [s |-> s, evs |-> <<>>, val |-> RetVal(id, TRUE, "", s.vfs, 0, FALSE)]

StealOps == {"steal_async", "steal_world", "clear_cache", "collect_server_info"}

\* f(this) of the boxed task, by the operation that built the closure.
RunClosure(m, s, live, mfail, outcome) ==
    CASE m.op = "change_entry" -> change_entry_task(m.id, Unwrap(m.next), s, live, mfail)
      [] m.op = "clear_cache" -> clear_cache_task(m.id, s)
      [] m.op = "collect_server_info" -> collect_server_info_task(m.id, s)
      [] m.op = "steal_world" -> steal_world_task(m.id, s, outcome)
      [] m.op = "steal_state" -> steal_state_task(m.id, s, outcome)
      [] OTHER -> user_task(m.id, s)

\* The boxed task of steal_inner, after f(this): tx.send(result); a dropped
\* receiver is logged and the result discarded.
task_send_back_Unwrap(ch) ==
    IF ch = "rxdrop" THEN [ch |-> "rxdrop", delivered |-> FALSE, panic |-> TRUE]
    ELSE [ch |-> "sent", delivered |-> TRUE, panic |-> FALSE]
task_send_back(ch) ==
    IF ch = "rxdrop" THEN [ch |-> "rxdrop", delivered |-> FALSE, panic |-> FALSE]
    ELSE [ch |-> "sent", delivered |-> TRUE, panic |-> FALSE]

(* ------------------------------ the client ----------------------------- *)
\* The worker's receiver is gone: sends on intr_tx fail.
QueueClosed(ws) == ws \in {"closed", "panicked"}

\* intr_tx.send of steal_inner: the task goes to the back of the queue, or
\* the send fails and steal_inner returns the error.
steal_inner_Unchecked(q, ws, m) ==
    [ok |-> TRUE, q |-> IF QueueClosed(ws) THEN q ELSE Append(q, m)]
steal_inner_Front(q, ws, m) ==
    IF QueueClosed(ws) THEN [ok |-> FALSE, q |-> q] ELSE [ok |-> TRUE, q |-> <<m>> \o q]
steal_inner(q, ws, m) ==
    IF QueueClosed(ws) THEN [ok |-> FALSE, q |-> q] ELSE [ok |-> TRUE, q |-> Append(q, m)]

\* add_memory_changes: the event goes to the back of the same queue; a
\* failed send is ignored.
add_memory_changes_Lost(q, ws, m) == [ok |-> TRUE, q |-> q]
add_memory_changes(q, ws, m) ==
    IF QueueClosed(ws) THEN [ok |-> FALSE, q |-> q] ELSE [ok |-> TRUE, q |-> Append(q, m)]

\* The send of settle: Interrupt::Settle(tx) on the same queue; on a failed
\* send the rejected message is dropped, and tx with it.
settle_send_Kept(q, ws, m) == [ok |-> TRUE, q |-> IF QueueClosed(ws) THEN q ELSE Append(q, m)]
settle_send(q, ws, m) ==
    IF QueueClosed(ws) THEN [ok |-> FALSE, q |-> q] ELSE [ok |-> TRUE, q |-> Append(q, m)]

\* utils::threaded_receive / awaiting the receiver: blocks until the value
\* was sent or the sender was dropped.
threaded_receive(ch) ==
    [ready |-> ch \in {"sent", "txdrop"}, ok |-> ch = "sent"]

\* change_entry up to the steal: "invalid" (the validation error), "same"
\* (Ok(false)) or "submit" with the next entry.
change_entry_begin_NoCompare(pl, cfg, cur, path) ==
    IF EntryPathRejected(pl, path) THEN [do |-> "invalid", next |-> cur]
    ELSE [do |-> "submit", next |-> determine_entry(cfg, path)]
change_entry_begin(pl, cfg, cur, path) ==
    IF EntryPathRejected(pl, path) THEN [do |-> "invalid", next |-> cur]
    ELSE LET next_entry == determine_entry(cfg, path)
         IN  IF next_entry = cur THEN [do |-> "same", next |-> next_entry]
             ELSE [do |-> "submit", next |-> next_entry]

\* change_entry after the steal (the two ? of `self.steal(..)??`): a failed
\* receive or a failed task returns the error; else the export channel is
\* told the new path and the cache takes the new entry.
change_entry_finish_Eager(id, cur, next, recv_ok, val, live) ==
    [entry |-> next,
     evs |-> ChSend(live.export, ChangeExportPath(next, id)),
     res |-> IF recv_ok /\ val.ok THEN "Ok" ELSE "Err",
     kind |-> IF ~recv_ok THEN "recv" ELSE IF ~val.ok THEN "task" ELSE "",
     changed |-> recv_ok /\ val.ok]
change_entry_finish_NoCheck(id, cur, next, recv_ok, val, live) ==
    IF ~recv_ok
    THEN [entry |-> cur, evs |-> <<>>, res |-> "Err", kind |-> "recv", changed |-> FALSE]
    ELSE [entry |-> next, evs |-> ChSend(live.export, ChangeExportPath(next, id)),
          res |-> "Ok", kind |-> "", changed |-> TRUE]
change_entry_finish(id, cur, next, recv_ok, val, live) ==
    IF ~recv_ok
    THEN [entry |-> cur, evs |-> <<>>, res |-> "Err", kind |-> "recv", changed |-> FALSE]
    ELSE IF ~val.ok
    THEN [entry |-> cur, evs |-> <<>>, res |-> "Err", kind |-> "task", changed |-> FALSE]
    ELSE [entry |-> next, evs |-> ChSend(live.export, ChangeExportPath(next, id)),
          res |-> "Ok", kind |-> "", changed |-> TRUE]

(* ------------------------------ the state ------------------------------ *)
VARIABLES
    platform,   \* the platform the server was built for
    live,       \* which consumers (editor, export, watch) are alive
    config,     \* CompileClientActor.config
    entry,      \* CompileClientActor.entry, the cached EntryState
    pc,         \* where each caller is in its call
    inflight,   \* the call each caller is in
    done,       \* per call: its record once it has returned
    nops,       \* the number of calls made
    settled,    \* a call of settle has returned
    queue,      \* the interrupt queue (intr_tx / the worker's receiver)
    tasks,      \* per call: what was sent and the state of its oneshot channel
    ret,        \* per call: the value sent back on its oneshot channel
    wstate,     \* the worker: running, settled, closed, panicked
    worker,     \* the state the worker owns (WorkerState)
    dirty,      \* a recompilation is scheduled
    events,     \* the messages sent on the editor, export and watch channels
    attempts,   \* the compile attempts made
    execLog     \* the tasks whose closure the worker ran, in order

clientVars == <<config, entry, pc, inflight, done, nops, settled>>
workerVars == <<wstate, worker, dirty, attempts, execLog>>
vars == <<platform, live, config, entry, pc, inflight, done, nops, settled, queue,
          tasks, ret, wstate, worker, dirty, events, attempts, execLog>>

\* A call on the client handle; pre_entry and post_entry are the cached
\* entry when it began and when it returned, next the entry it computed,
\* late whether it began after a settle had returned.
CallRec(op, by, id, path, cfg, pre, late) ==
    [op |-> op, by |-> by, id |-> id, path |-> path, cfg |-> cfg, res |-> "",
     kind |-> "", changed |-> FALSE, val |-> NoRet, pre_entry |-> pre,
     post_entry |-> pre, next |-> pre, late |-> late]
NoCall == CallRec("", 0, 0, None, [root |-> None], EntryState(None, None), FALSE)

\* What is known of a call's interrupt: the operation, whether the queue
\* took it ("accepted" while the worker accepts work, "late" after it
\* stopped, "rejected" when the send failed), and its oneshot channel.
TaskRec(op, acc, ch, by) == [op |-> op, acc |-> acc, ch |-> ch, by |-> by]
NoTask == TaskRec("", "none", "none", 0)
Acceptance(ok, ws) == IF ~ok THEN "rejected" ELSE IF ws = "running" THEN "accepted" ELSE "late"

\* The entry the client and the worker are constructed with: none, or a
\* main document under a root.
InitialEntries(pl) ==
    {determine_entry([root |-> None], None),
     determine_entry([root |-> None],
                     Some(IF pl = "windows" THEN DrivePath ELSE RootedPath))}

Init ==
    /\ platform \in Platforms
    /\ live = [editor |-> TRUE, export |-> TRUE, watch |-> TRUE]
    /\ config = [root |-> None]
    /\ entry \in InitialEntries(platform)
    /\ pc = [c \in Callers |-> "idle"]
    /\ inflight = [c \in Callers |-> NoCall]
    /\ done = [i \in Ids |-> NoCall]
    /\ nops = 0
    /\ settled = FALSE
    /\ queue = <<>>
    /\ tasks = [i \in Ids |-> NoTask]
    /\ ret = [i \in Ids |-> NoRet]
    /\ wstate = "running"
    /\ worker = WorkerState(entry, entry, {}, {}, FALSE)
    /\ dirty = FALSE
    /\ events = <<>>
    /\ attempts = <<>>
    /\ execLog = <<>>

\* &mut self: change_entry, settle and sync_config exclude every other call.
AllIdle == \A c \in Callers : pc[c] = "idle"
NoExclusive == \A c \in Callers : pc[c] \in {"idle", "recv", "await"}

\* The least free caller makes the next call: callers are interchangeable.
Free(c) == pc[c] = "idle" /\ \A d \in Callers : d < c => pc[d] # "idle"

\* A call returns: its record is kept under its id.
Finish(d, rec) == [d EXCEPT ![rec.id] = rec]

Returned(rec, res, kind, val) ==
    [rec EXCEPT !.res = res, !.kind = kind, !.val = val]

(* --------------------------- client actions ---------------------------- *)
\* steal, steal_async, steal_world, clear_cache, collect_server_info up to
\* the wait for the result: steal_inner sends the task; a failed send
\* returns the error at once.
StealCall(c, op) ==
    /\ Free(c) /\ NoExclusive /\ nops < MaxOps
    /\ LET id == nops + 1
           r == steal_inner(queue, wstate, Task(id, op, None))
           rec == CallRec(op, c, id, None, config, entry, settled)
       IN  /\ nops' = id
           /\ queue' = r.q
           /\ tasks' = [tasks EXCEPT ![id] =
                  TaskRec(op, Acceptance(r.ok, wstate), IF r.ok THEN "open" ELSE "none", c)]
           /\ IF r.ok
              THEN /\ pc' = [pc EXCEPT ![c] = IF op = "steal_async" THEN "await" ELSE "recv"]
                   /\ inflight' = [inflight EXCEPT ![c] = rec]
                   /\ done' = done
              ELSE /\ done' = Finish(done, Returned(rec, "Err", "send", NoRet))
                   /\ UNCHANGED <<pc, inflight>>
    /\ UNCHANGED <<platform, live, config, entry, settled, ret, events>>
    /\ UNCHANGED workerVars

\* The wait of a steal ends: the value arrived, or the sender was dropped.
StealReturn(c) ==
    /\ pc[c] \in {"recv", "await"}
    /\ LET rec == inflight[c]
           rx == threaded_receive(tasks[rec.id].ch)
       IN  /\ rx.ready
           /\ done' = Finish(done,
                  IF rx.ok THEN Returned(rec, "Ok", "", ret[rec.id])
                  ELSE Returned(rec, "Err", "recv", NoRet))
    /\ pc' = [pc EXCEPT ![c] = "idle"]
    /\ inflight' = [inflight EXCEPT ![c] = NoCall]
    /\ UNCHANGED <<platform, live, config, entry, nops, settled, queue, tasks, ret, events>>
    /\ UNCHANGED workerVars

\* The caller of steal_async drops the future, and with it the receiver.
Abandon(c) ==
    /\ pc[c] = "await"
    /\ LET rec == inflight[c]
       IN  /\ tasks' = [tasks EXCEPT ![rec.id].ch = IF @ = "open" THEN "rxdrop" ELSE @]
           /\ done' = Finish(done, Returned(rec, "Abandoned", "", NoRet))
    /\ pc' = [pc EXCEPT ![c] = "idle"]
    /\ inflight' = [inflight EXCEPT ![c] = NoCall]
    /\ UNCHANGED <<platform, live, config, entry, nops, settled, queue, ret, events>>
    /\ UNCHANGED workerVars

\* add_memory_changes(event)
AddMemoryChanges(c) ==
    /\ Free(c) /\ NoExclusive /\ nops < MaxOps
    /\ LET id == nops + 1
           r == add_memory_changes(queue, wstate, Memory(id))
           rec == CallRec("add_memory_changes", c, id, None, config, entry, settled)
       IN  /\ nops' = id
           /\ queue' = r.q
           /\ tasks' = [tasks EXCEPT ![id] =
                  TaskRec("memory", Acceptance(r.ok, wstate), "none", c)]
           /\ done' = Finish(done, Returned(rec, "Ok", "", NoRet))
    /\ UNCHANGED <<platform, live, config, entry, pc, inflight, settled, ret, events>>
    /\ UNCHANGED workerVars

\* sync_config(config)
SyncConfig(c, cfg) ==
    /\ Free(c) /\ AllIdle /\ nops < MaxOps /\ cfg # config
    /\ nops' = nops + 1
    /\ config' = cfg
    /\ done' = Finish(done,
           Returned(CallRec("sync_config", c, nops + 1, None, cfg, entry, settled),
                    "Ok", "", NoRet))
    /\ UNCHANGED <<platform, live, entry, pc, inflight, settled, queue, tasks, ret, events>>
    /\ UNCHANGED workerVars

\* change_entry(path) up to the wait for the task: the validation, the
\* comparison with the cached entry, the steal.
ChangeEntryCall(c, path) ==
    /\ Free(c) /\ AllIdle /\ nops < MaxOps
    /\ LET id == nops + 1
           b == change_entry_begin(platform, config, entry, path)
           r == steal_inner(queue, wstate, Task(id, "change_entry", Some(b.next)))
           rec == [CallRec("change_entry", c, id, path, config, entry, settled)
                       EXCEPT !.next = b.next]
       IN  /\ nops' = id
           /\ CASE b.do = "invalid" ->
                     /\ done' = Finish(done, Returned(rec, "Err", "validation", NoRet))
                     /\ UNCHANGED <<pc, inflight, queue, tasks>>
                [] b.do = "same" ->
                     /\ done' = Finish(done, Returned(rec, "Ok", "", NoRet))
                     /\ UNCHANGED <<pc, inflight, queue, tasks>>
                [] OTHER ->
                     /\ queue' = r.q
                     /\ tasks' = [tasks EXCEPT ![id] =
                            TaskRec("change_entry", Acceptance(r.ok, wstate),
                                    IF r.ok THEN "open" ELSE "none", c)]
                     /\ IF r.ok
                        THEN /\ pc' = [pc EXCEPT ![c] = "ce_wait"]
                             /\ inflight' = [inflight EXCEPT ![c] = rec]
                             /\ done' = done
                        ELSE /\ done' = Finish(done, Returned(rec, "Err", "send", NoRet))
                             /\ UNCHANGED <<pc, inflight>>
    /\ UNCHANGED <<platform, live, config, entry, settled, ret, events>>
    /\ UNCHANGED workerVars

\* change_entry from the end of the wait: the error is returned, or the
\* export channel is told and the cache committed.
ChangeEntryReturn(c) ==
    /\ pc[c] = "ce_wait"
    /\ LET rec == inflight[c]
           rx == threaded_receive(tasks[rec.id].ch)
           f == change_entry_finish(rec.id, entry, rec.next, rx.ok, ret[rec.id], live)
       IN  /\ rx.ready
           /\ entry' = f.entry
           /\ events' = events \o f.evs
           /\ done' = Finish(done,
                  [rec EXCEPT !.res = f.res, !.kind = f.kind, !.changed = f.changed,
                              !.val = IF rx.ok THEN ret[rec.id] ELSE NoRet,
                              !.post_entry = f.entry])
    /\ pc' = [pc EXCEPT ![c] = "idle"]
    /\ inflight' = [inflight EXCEPT ![c] = NoCall]
    /\ UNCHANGED <<platform, live, config, nops, settled, queue, tasks, ret>>
    /\ UNCHANGED workerVars

\* settle up to its first wait: change_entry(None), whose result is
\* dropped; when that call returns without a steal, the Settle interrupt is
\* sent at once. A change_entry(None) that finds the cache inactive already
\* returns Ok(false) at once and leaves no record.
SettleCall(c) ==
    /\ Free(c) /\ AllIdle
    /\ LET id == nops + 1
           b == change_entry_begin(platform, config, entry, None)
           sid == IF b.do = "submit" THEN id + 1 ELSE id
           r == steal_inner(queue, wstate, Task(id, "change_entry", Some(b.next)))
           q1 == IF b.do = "submit" THEN r.q ELSE queue
           st == settle_send(q1, wstate, Settle(sid))
           ce == [CallRec("change_entry", c, id, None, config, entry, settled)
                      EXCEPT !.next = b.next]
           se == CallRec("settle", c, sid, None, config, entry, settled)
       IN  /\ sid <= MaxOps
           /\ nops' = sid
           /\ IF b.do = "submit" /\ r.ok
              THEN /\ queue' = r.q
                   /\ tasks' = [tasks EXCEPT ![id] =
                          TaskRec("change_entry", Acceptance(TRUE, wstate), "open", c)]
                   /\ pc' = [pc EXCEPT ![c] = "settle_ce"]
                   /\ inflight' = [inflight EXCEPT ![c] = ce]
                   /\ done' = done
              ELSE /\ queue' = st.q
                   /\ tasks' = [i \in Ids |->
                          IF i = sid
                          THEN TaskRec("settle", Acceptance(st.ok, wstate),
                                       IF st.ok THEN "open" ELSE "txdrop", c)
                          ELSE IF i = id
                          THEN TaskRec("change_entry", "rejected", "none", c)
                          ELSE tasks[i]]
                   /\ pc' = [pc EXCEPT ![c] = "settle_wait"]
                   /\ inflight' = [inflight EXCEPT ![c] = se]
                   /\ done' = IF b.do = "submit"
                              THEN Finish(done, Returned(ce, "Err", "send", NoRet))
                              ELSE done
    /\ UNCHANGED <<platform, live, config, entry, settled, ret, events>>
    /\ UNCHANGED workerVars

\* settle from the end of the wait of its change_entry(None) to the wait
\* for the acknowledgement: the entry change ends as in ChangeEntryReturn,
\* then Interrupt::Settle(tx) is sent.
SettleChangeEntryReturn(c) ==
    /\ pc[c] = "settle_ce"
    /\ LET rec == inflight[c]
           rx == threaded_receive(tasks[rec.id].ch)
           f == change_entry_finish(rec.id, entry, rec.next, rx.ok, ret[rec.id], live)
           st == settle_send(queue, wstate, Settle(rec.id + 1))
           se == CallRec("settle", c, rec.id + 1, None, config, rec.pre_entry, rec.late)
       IN  /\ rx.ready
           /\ entry' = f.entry
           /\ events' = events \o f.evs
           /\ done' = Finish(done,
                  [rec EXCEPT !.res = f.res, !.kind = f.kind, !.changed = f.changed,
                              !.val = IF rx.ok THEN ret[rec.id] ELSE NoRet,
                              !.post_entry = f.entry])
           /\ queue' = st.q
           /\ tasks' = [tasks EXCEPT ![rec.id + 1] =
                  TaskRec("settle", Acceptance(st.ok, wstate),
                          IF st.ok THEN "open" ELSE "txdrop", c)]
           /\ inflight' = [inflight EXCEPT ![c] = se]
    /\ pc' = [pc EXCEPT ![c] = "settle_wait"]
    /\ UNCHANGED <<platform, live, config, nops, settled, ret>>
    /\ UNCHANGED workerVars

\* settle returns: the acknowledgement arrived, or its sender was dropped
\* and the error is logged.
SettleReturn(c) ==
    /\ pc[c] = "settle_wait"
    /\ LET rec == inflight[c]
           rx == threaded_receive(tasks[rec.id].ch)
       IN  /\ rx.ready
           /\ done' = Finish(done,
                  [rec EXCEPT !.res = IF rx.ok THEN "Ok" ELSE "Err",
                              !.kind = IF rx.ok THEN "" ELSE "recv",
                              !.post_entry = entry])
    /\ settled' = TRUE
    /\ pc' = [pc EXCEPT ![c] = "idle"]
    /\ inflight' = [inflight EXCEPT ![c] = NoCall]
    /\ UNCHANGED <<platform, live, config, entry, nops, queue, tasks, ret, events>>
    /\ UNCHANGED workerVars

(* ------------------------------ the worker ----------------------------- *)
\* The receiver is dropped with interrupts still queued: each is dropped,
\* and the sender of its oneshot channel with it.
DropQueue(ts, q) ==
    [i \in Ids |->
        IF (\E k \in 1..Len(q) : q[k].id = i /\ q[k].kind \in {"Task", "Settle"})
           /\ ts[i].ch = "open"
        THEN [ts[i] EXCEPT !.ch = "txdrop"]
        ELSE ts[i]]

\* The worker takes a Task and runs it to completion: f(this), then the
\* result is sent back.
WorkerTask ==
    /\ wstate = "running" /\ queue # <<>> /\ Head(queue).kind = "Task"
    /\ LET m == Head(queue)
       IN  \E mfail \in (IF m.op = "change_entry" THEN BOOLEAN ELSE {FALSE}),
              outcome \in (IF m.op \in AnalysisOps THEN AnalysisOutcomes ELSE {"ok"}) :
              LET r == RunClosure(m, worker, live, mfail, outcome)
                  w == task_send_back(tasks[m.id].ch)
                  ts == [tasks EXCEPT ![m.id].ch = w.ch]
              IN  /\ worker' = [r.s EXCEPT !.clean =
                         IF m.op = "clear_cache" THEN TRUE
                         ELSE IF m.op \in AnalysisOps THEN FALSE ELSE @]
                  /\ events' = events \o r.evs
                  /\ execLog' = Append(execLog, m.id)
                  /\ ret' = IF w.delivered THEN [ret EXCEPT ![m.id] = r.val] ELSE ret
                  /\ IF w.panic
                     THEN /\ wstate' = "panicked"
                          /\ queue' = <<>>
                          /\ tasks' = DropQueue(ts, Tail(queue))
                     ELSE /\ wstate' = "running"
                          /\ queue' = Tail(queue)
                          /\ tasks' = ts
    /\ UNCHANGED <<platform, live, dirty, attempts>>
    /\ UNCHANGED clientVars

\* The worker takes a Memory event: the edit is applied to the shadowed
\* files and a recompilation is scheduled.
WorkerMemory ==
    /\ wstate = "running" /\ queue # <<>> /\ Head(queue).kind = "Memory"
    /\ worker' = [worker EXCEPT !.vfs = @ \cup {Head(queue).id}]
    /\ dirty' = TRUE
    /\ queue' = Tail(queue)
    /\ UNCHANGED <<platform, live, tasks, ret, wstate, events, attempts, execLog>>
    /\ UNCHANGED clientVars

\* The scheduled recompilation: one compile attempt through wrap_compile.
\* The engine returns a document (ok) or errors, ok among Results, with
\* warnings among Warnings; the conversion of the diagnostics memoizes in the
\* analysis caches.
WorkerCompile(Results, Warnings) ==
    /\ wstate = "running" /\ dirty
    /\ \E ok \in Results, warnings \in Warnings,
          outcome \in (IF run_analysis(worker.w_entry, "ok") = "" THEN AnalysisOutcomes
                       ELSE {"ok"}) :
          LET att == Len(attempts) + 1
              r == wrap_compile(live, worker.w_entry, ok, {"e1"}, warnings, outcome, att)
              ran == run_analysis(worker.w_entry, outcome) = ""
          IN  /\ events' = events \o r.evs
              /\ attempts' = Append(attempts,
                     [ok |-> ok, doc |-> att, inactive |-> is_inactive(worker.w_entry),
                      errors |-> IF ok THEN {} ELSE {"e1"}, warnings |-> warnings,
                      panic |-> r.panic, res |-> r.res, afail |-> ~r.panic /\ ~ran])
              /\ IF r.panic
                 THEN /\ wstate' = "panicked"
                      /\ queue' = <<>>
                      /\ tasks' = DropQueue(tasks, queue)
                      /\ worker' = worker
                 ELSE /\ worker' = IF ran
                                   THEN [worker EXCEPT !.caches = @ \cup {"diag"},
                                                       !.clean = FALSE]
                                   ELSE [worker EXCEPT !.clean = FALSE]
                      /\ UNCHANGED <<wstate, queue, tasks>>
    /\ dirty' = FALSE
    /\ UNCHANGED <<platform, live, ret, execLog>>
    /\ UNCHANGED clientVars

\* The worker takes Settle: it acknowledges and stops accepting work.
WorkerSettle ==
    /\ wstate = "running" /\ queue # <<>> /\ Head(queue).kind = "Settle"
    /\ tasks' = [tasks EXCEPT ![Head(queue).id].ch = IF @ = "open" THEN "sent" ELSE @]
    /\ wstate' = "settled"
    /\ queue' = Tail(queue)
    /\ UNCHANGED <<platform, live, ret, worker, dirty, events, attempts, execLog>>
    /\ UNCHANGED clientVars

\* The settled worker exits: its receiver is dropped, and every interrupt
\* sent since is dropped unprocessed.
WorkerExit ==
    /\ wstate = "settled"
    /\ wstate' = "closed"
    /\ tasks' = DropQueue(tasks, queue)
    /\ queue' = <<>>
    /\ UNCHANGED <<platform, live, ret, worker, dirty, events, attempts, execLog>>
    /\ UNCHANGED clientVars

\* The consumer of one of the handler's channels goes away: the receiver of
\* the editor channel, of the export channel or of the document watch point
\* is dropped, and every later send on it fails.
ConsumerGone(ch) ==
    /\ live[ch]
    /\ live' = [live EXCEPT ![ch] = FALSE]
    /\ UNCHANGED <<platform, queue, tasks, ret, events>>
    /\ UNCHANGED clientVars
    /\ UNCHANGED workerVars

(* --------------------------- specifications --------------------------- *)
\* The entry protocol: entry changes, configuration changes, edits and
\* shutdown, against the worker.
Next ==
    \/ \E c \in Callers, p \in PathsOn(platform) : ChangeEntryCall(c, Some(p))
    \/ \E c \in Callers : ChangeEntryCall(c, None)
    \/ \E c \in Callers : ChangeEntryReturn(c)
    \/ \E c \in Callers, cfg \in Configs : SyncConfig(c, cfg)
    \/ \E c \in Callers : AddMemoryChanges(c)
    \/ \E c \in Callers : SettleCall(c)
    \/ \E c \in Callers : SettleChangeEntryReturn(c)
    \/ \E c \in Callers : SettleReturn(c)
    \/ WorkerTask
    \/ WorkerMemory
    \/ WorkerCompile(BOOLEAN, {None, Some({"w1"})})
    \/ WorkerSettle
    \/ WorkerExit

Spec == Init /\ [][Next]_vars

\* The steal protocol: concurrent steals, abandoned calls, edits and
\* shutdown, against the worker. Its compile attempts matter by what they do
\* to the worker's state only: they succeed, without warnings.
NextSteal ==
    \/ \E c \in Callers, op \in StealOps : StealCall(c, op)
    \/ \E c \in Callers : StealReturn(c)
    \/ \E c \in Callers : Abandon(c)
    \/ \E c \in Callers : AddMemoryChanges(c)
    \/ \E c \in Callers : SettleCall(c)
    \/ \E c \in Callers : SettleChangeEntryReturn(c)
    \/ \E c \in Callers : SettleReturn(c)
    \/ WorkerTask
    \/ WorkerMemory
    \/ WorkerCompile({TRUE}, {None})
    \/ WorkerSettle
    \/ WorkerExit

\* It starts from an active entry (settle makes it inactive); the platform
\* plays no part in it.
InitSteal == Init /\ platform = "unix" /\ ~is_inactive(entry)

SpecSteal == InitSteal /\ [][NextSteal]_vars

\* The consumers' side: the entry protocol without configuration changes
\* and with inactive targets only, while the consumers of the handler's
\* channels may go away at any time.
NextGone ==
    \/ \E ch \in DOMAIN live : ConsumerGone(ch)
    \/ \E c \in Callers : ChangeEntryCall(c, None)
    \/ \E c \in Callers : ChangeEntryReturn(c)
    \/ \E c \in Callers : AddMemoryChanges(c)
    \/ \E c \in Callers : SettleCall(c)
    \/ \E c \in Callers : SettleChangeEntryReturn(c)
    \/ \E c \in Callers : SettleReturn(c)
    \/ WorkerTask
    \/ WorkerMemory
    \/ WorkerCompile(BOOLEAN, {None})
    \/ WorkerSettle
    \/ WorkerExit

InitGone == Init /\ platform = "unix"

SpecGone == InitGone /\ [][NextGone]_vars

\* Shutdown: edits and settle calls against the worker, whose editor may go
\* away. The worker's thread keeps running its loop until it exits, and a
\* blocked caller goes on once its channel has a value or has lost its
\* sender: these steps are taken when they stay possible.
NextSettle ==
    \/ ConsumerGone("editor")
    \/ \E c \in Callers : AddMemoryChanges(c)
    \/ \E c \in Callers : SettleCall(c)
    \/ \E c \in Callers : SettleChangeEntryReturn(c)
    \/ \E c \in Callers : SettleReturn(c)
    \/ WorkerTask
    \/ WorkerMemory
    \/ WorkerCompile({TRUE}, {None})
    \/ WorkerSettle
    \/ WorkerExit

WorkerRuns ==
    WorkerTask \/ WorkerMemory \/ WorkerCompile({TRUE}, {None}) \/ WorkerSettle \/ WorkerExit

CallerResumes == \E c \in Callers : SettleChangeEntryReturn(c) \/ SettleReturn(c)

SpecSettle ==
    /\ InitGone /\ [][NextSettle]_vars
    /\ WF_vars(WorkerRuns) /\ WF_vars(CallerResumes)

\* The analysis bridge: steal_world and steal_state against the worker,
\* whose entry is changed to the inactive entry and to an untitled one.
NextAnalysis ==
    \/ \E c \in Callers, op \in AnalysisOps : StealCall(c, op)
    \/ \E c \in Callers : StealReturn(c)
    \/ \E c \in Callers : ChangeEntryCall(c, Some(UntitledPath))
    \/ \E c \in Callers : ChangeEntryCall(c, None)
    \/ \E c \in Callers : ChangeEntryReturn(c)
    \/ WorkerTask

InitAnalysis == Init /\ platform = "unix"

SpecAnalysis == InitAnalysis /\ [][NextAnalysis]_vars

(* ------------------------------ properties ----------------------------- *)
Executions(i) == Cardinality({k \in 1..Len(execLog) : execLog[k] = i})
Executed(i) == Executions(i) > 0
InQueue(i) == \E k \in 1..Len(queue) : queue[k].id = i
IsTask(i) == tasks[i].op \in StealOps \cup {"change_entry"}
IsSteal(i) == tasks[i].op \in StealOps
\* The queue took the interrupt of call i.
Submitted(i) == tasks[i].acc \in {"accepted", "late"}
\* The messages call i sent on the export channel.
Exported(i) ==
    LET ByCall(e) == e.ch = "export" /\ e.task = i
    IN  SelectSeq(events, ByCall)
HasReturned(i) == done[i].res # ""

\* C1: every steal task the queue accepted while the worker accepts work is
\* run exactly once (never twice; run as soon as it has left the queue), the
\* tasks are run in the order they were enqueued (ids grow in that order, and
\* no task is run while one enqueued before it waits), and a caller that
\* gets a result gets the one its own closure returned.
C1_ExactlyOnceInOrder ==
    /\ \A i \in Ids : Executions(i) <= 1
    /\ \A i \in Ids :
          (IsTask(i) /\ tasks[i].acc = "accepted" /\ ~InQueue(i)) => Executed(i)
    /\ \A j, k \in 1..Len(execLog) : j < k => execLog[j] < execLog[k]
    /\ \A i, j \in Ids :
          (Executed(i) /\ j < i /\ IsTask(j) /\ tasks[j].acc = "accepted") => Executed(j)
    /\ \A i \in Ids :
          (IsSteal(i) /\ HasReturned(i) /\ done[i].res = "Ok") =>
              /\ done[i].val.tag = i
              /\ done[i].by = tasks[i].by
              /\ Executed(i)
\* Two callers had their tasks in the queue at once, and both were run and
\* answered.
C1_Witness ==
    \E i, j \in Ids :
        /\ i < j /\ IsSteal(i) /\ IsSteal(j)
        /\ done[i].res = "Ok" /\ done[j].res = "Ok"
        /\ done[i].by # done[j].by

\* C2: when change_entry(p) has returned Ok and the next call is
\* change_entry(p) again under the same configuration, that call returns
\* Ok(false), submits no interrupt, sends nothing on the export channel and
\* leaves the cached entry as it was.
C2_IdempotentEntryChange ==
    \A k \in Ids :
        (/\ k > 1
         /\ done[k - 1].op = "change_entry" /\ done[k - 1].res = "Ok"
         /\ done[k].op = "change_entry" /\ HasReturned(k)
         /\ done[k].path = done[k - 1].path
         /\ done[k].cfg = done[k - 1].cfg)
        => /\ done[k].res = "Ok" /\ ~done[k].changed
           /\ ~Submitted(k) /\ tasks[k] = NoTask
           /\ Exported(k) = <<>>
           /\ done[k].post_entry = done[k].pre_entry
\* A call changed the entry and the same call was made again.
C2_Witness ==
    \E k \in Ids :
        /\ k > 1
        /\ done[k - 1].op = "change_entry" /\ done[k - 1].changed
        /\ done[k].op = "change_entry" /\ done[k].res = "Ok"
        /\ done[k].path = done[k - 1].path /\ done[k].path # None

\* C3: a change_entry whose task failed in the worker (mutate_entry returned
\* an error) or whose steal failed (the send was rejected, or the task was
\* dropped unrun) returns an error, leaves the cached entry as it was and
\* sends no ChangeExportPath.
SwapFailed(k) == Executed(k) /\ tasks[k].ch = "sent" /\ ~ret[k].ok
StealFailed(k) == tasks[k].acc = "rejected" \/ tasks[k].ch = "txdrop"
C3_RollbackOnFailure ==
    \A k \in Ids :
        (done[k].op = "change_entry" /\ HasReturned(k)
         /\ (SwapFailed(k) \/ StealFailed(k)))
        => /\ done[k].res = "Err"
           /\ done[k].kind = (IF SwapFailed(k) THEN "task"
                              ELSE IF tasks[k].acc = "rejected" THEN "send" ELSE "recv")
           /\ done[k].post_entry = done[k].pre_entry
           /\ Exported(k) = <<>>
\* A swap failed in the worker for a call that asked for another entry, and
\* the call returned.
C3_Witness ==
    \E k \in Ids :
        /\ done[k].op = "change_entry" /\ HasReturned(k) /\ SwapFailed(k)
        /\ done[k].next # done[k].pre_entry
        /\ entry = done[k].pre_entry

\* C4: change_entry with a path that is neither absolute nor under
\* "/untitled" returns the validation error with the cached entry unchanged,
\* no interrupt submitted and no export message sent; a path under
\* "/untitled" is never refused by the validation and goes on like an absolute
\* path: Ok(false) when it resolves to the cached entry, the task otherwise.
C4_ValidationRejection ==
    \A k \in Ids :
        (done[k].op = "change_entry" /\ HasReturned(k) /\ done[k].path # None) =>
            LET p == Unwrap(done[k].path)
            IN  /\ (~is_absolute(platform, p) /\ ~starts_with(p, UntitledPrefix)) =>
                       /\ done[k].res = "Err" /\ done[k].kind = "validation"
                       /\ done[k].post_entry = done[k].pre_entry
                       /\ tasks[k] = NoTask
                       /\ Exported(k) = <<>>
                /\ (is_absolute(platform, p) \/ starts_with(p, UntitledPrefix)) =>
                       /\ done[k].kind # "validation"
                       /\ done[k].next = determine_entry(done[k].cfg, done[k].path)
                       /\ (done[k].next = done[k].pre_entry) =>
                              (done[k].res = "Ok" /\ ~done[k].changed /\ tasks[k] = NoTask)
                       /\ (done[k].next # done[k].pre_entry) => tasks[k].op = "change_entry"
\* Where "/untitled/1" is not absolute: a relative path was refused and the
\* untitled path became the entry.
C4_Witness ==
    /\ platform = "windows"
    /\ \E k \in Ids :
          /\ done[k].op = "change_entry" /\ done[k].kind = "validation"
          /\ done[k].path = Some(RelativePath)
    /\ \E k \in Ids :
          /\ done[k].op = "change_entry" /\ done[k].changed
          /\ done[k].path = Some(UntitledPath)
          /\ entry = determine_entry(done[k].cfg, Some(UntitledPath))

\* C5: a compile attempt that produced document D sent, of the watch
\* publishes, the OnTyped triggers and the CompileSuccess statuses, exactly
\* these three and in this order: the publish of D, one OnTyped, one
\* Status(CompileSuccess).
SuccessBundle(n) ==
    LET OfBundle(e) ==
            /\ e.att = n
            /\ \/ e.kind \in {"Publish", "OnTyped"}
               \/ e.kind = "Status" /\ e.status = "CompileSuccess"
    IN  SelectSeq(events, OfBundle)
C5_SuccessBundle ==
    \A n \in 1..Len(attempts) :
        attempts[n].ok =>
            SuccessBundle(n) = <<Publish(attempts[n].doc, n), OnTyped(n),
                                 Status("CompileSuccess", n)>>
\* Two attempts succeeded, each with its own document.
C5_Witness ==
    \E n, k \in 1..Len(attempts) : n < k /\ attempts[n].ok /\ attempts[k].ok

\* C6: a compile attempt made while the world's entry is inactive delivers
\* one Diag message, and it carries None, whether the engine returned a
\* document or errors and whatever the warnings.
DiagsOf(n) ==
    LET OfAttempt(e) == e.att = n /\ e.kind = "Diag"
    IN  SelectSeq(events, OfAttempt)
C6_DiagnosticsSuppressed ==
    \A n \in 1..Len(attempts) :
        attempts[n].inactive =>
            /\ Len(DiagsOf(n)) = 1
            /\ DiagsOf(n)[1].diag = None
\* An inactive attempt failed with errors and warnings, another succeeded.
C6_Witness ==
    \E n, k \in 1..Len(attempts) :
        /\ attempts[n].inactive /\ ~attempts[n].ok
        /\ attempts[n].errors # {} /\ attempts[n].warnings # None
        /\ attempts[k].inactive /\ attempts[k].ok

\* C7: a steal made after settle has returned is never run by the worker,
\* returns a channel error (the send was rejected, or the task was dropped
\* with the queue), and while it waits its wait can end: the sender of its
\* channel is dropped already, or the settled worker is about to drop the
\* queue that holds it.
LateSteal(r) == r.late /\ r.op \in StealOps
C7_SettleTerminal ==
    /\ \A i \in Ids :
          (HasReturned(i) /\ LateSteal(done[i])) =>
              /\ done[i].res \in {"Err", "Abandoned"}
              /\ done[i].res = "Err" => done[i].kind \in {"send", "recv"}
              /\ ~Executed(i)
    /\ \A c \in Callers :
          (pc[c] \in {"recv", "await"} /\ LateSteal(inflight[c])) =>
              /\ ~Executed(inflight[c].id)
              /\ \/ tasks[inflight[c].id].ch = "txdrop"
                 \/ wstate = "settled" /\ InQueue(inflight[c].id)
\* A steal made after settle returned was taken by the queue of the settled
\* worker, dropped with it, and returned the error.
C7_Witness ==
    \E i \in Ids :
        /\ HasReturned(i) /\ LateSteal(done[i])
        /\ tasks[i].acc = "late" /\ done[i].res = "Err" /\ done[i].kind = "recv"

\* C8: a collect_server_info run after a clear_cache, with no compile
\* attempt and no analysis run between them, reports the analysis memory of
\* empty caches.
C8_CacheClearObservable ==
    \A i \in Ids :
        (done[i].op = "collect_server_info" /\ done[i].res = "Ok" /\ done[i].val.clean)
        => done[i].val.analysis = estimated_memory({})
\* An analysis filled the caches, clear_cache ran, and the server info
\* reported after it.
C8_Witness ==
    \E a, b, i \in Ids :
        /\ a < b /\ b < i
        /\ done[a].op = "steal_world" /\ done[a].res = "Ok" /\ done[a].val.ok
        /\ tasks[b].op = "clear_cache" /\ Executed(b)
        /\ done[i].op = "collect_server_info" /\ done[i].res = "Ok" /\ done[i].val.clean

\* C9: a task whose receiver was dropped while it was queued is still run
\* exactly once when it leaves the queue, its result reaches nobody, the
\* worker does not fail, and the tasks enqueued behind it are run.
Dropped(i) == IsSteal(i) /\ tasks[i].acc = "accepted" /\ tasks[i].ch = "rxdrop"
C9_AbandonedTaskStillRuns ==
    \A i \in Ids :
        Dropped(i) =>
            /\ InQueue(i) \/ Executions(i) = 1
            /\ ret[i] = NoRet
            /\ done[i].res = "Abandoned"
            /\ wstate # "panicked"
            /\ \A j \in Ids :
                  (j > i /\ IsTask(j) /\ tasks[j].acc = "accepted" /\ Executed(i)
                   /\ ~InQueue(j)) => Executed(j) /\ tasks[j].ch # "txdrop"
\* An abandoned task was run, and a task behind it was run and answered.
C9_Witness ==
    \E i, j \in Ids :
        /\ Dropped(i) /\ Executed(i)
        /\ j > i /\ IsSteal(j) /\ Executed(j) /\ done[j].res = "Ok"

\* C10: a task sees every memory edit that was enqueued before it: when its
\* closure runs, the worker has applied them all.
EditBefore(e, i) == e < i /\ tasks[e].op = "memory" /\ Submitted(e)
C10_EditVisibleToLaterTask ==
    \A i \in Ids :
        (IsTask(i) /\ tasks[i].ch = "sent") =>
            \A e \in Ids : EditBefore(e, i) => e \in ret[i].seen
\* An edit and a task were in the queue together, the edit first, and the
\* task returned having seen it.
C10_Witness ==
    \E e, i \in Ids :
        /\ EditBefore(e, i) /\ IsSteal(i)
        /\ done[i].res = "Ok" /\ e \in done[i].val.seen
        /\ done[i].val.seen = {e}

(* ------------------------------- C11 ---------------------------------- *)
\* C11: a channel error never panics the worker: in every reachable state,
\* the consumers of the editor channel, of the export channel and of the
\* watch point gone included, the worker has not panicked and no compile
\* attempt has ended in a panic. The code unwraps the result of the editor
\* channel's send in wrap_compile and in notify_compile.
C11_ChannelErrorNeverPanics ==
    /\ wstate # "panicked"
    /\ \A n \in 1..Len(attempts) : ~attempts[n].panic

(* ------------------------------- C12 ---------------------------------- *)
\* A change_entry call (settle's own included) waits for its task.
Waiting(c) == pc[c] \in {"ce_wait", "settle_ce"}
\* The worker ran the task of call k, sent its result, and the result is a
\* success.
TaskSucceeded(k) == Executed(k) /\ tasks[k].ch = "sent" /\ ret[k].ok
\* C12: a change_entry call that changes the entry commits the new entry to
\* the cache and sends exactly one ChangeExportPath(new entry), and only
\* after the worker ran the task and reported success: while the call waits
\* the cache holds the entry it began with, not the requested one, and the
\* export channel holds no message of the call; a call that has changed the
\* cache or sent on the export channel is one whose task succeeded.
C12_CommitAfterSuccess ==
    /\ \A c \in Callers :
          Waiting(c) =>
              /\ entry = inflight[c].pre_entry
              /\ entry # inflight[c].next
              /\ Exported(inflight[c].id) = <<>>
    /\ \A k \in Ids :
          (done[k].op = "change_entry" /\ HasReturned(k)) =>
              /\ (done[k].changed \/ done[k].post_entry # done[k].pre_entry
                  \/ Exported(k) # <<>>) => TaskSucceeded(k)
              /\ TaskSucceeded(k) =>
                     /\ done[k].changed /\ done[k].res = "Ok"
                     /\ done[k].post_entry = done[k].next
                     /\ done[k].next # done[k].pre_entry
                     /\ Exported(k) = <<ChangeExportPath(done[k].next, k)>>
\* A call changed the cache to an active entry after its task had
\* succeeded, and another call's task failed in the worker.
C12_Witness ==
    \E k, j \in Ids :
        /\ done[k].op = "change_entry" /\ HasReturned(k) /\ done[k].changed
        /\ ~is_inactive(done[k].post_entry)
        /\ done[j].op = "change_entry" /\ HasReturned(j) /\ SwapFailed(j)

(* ------------------------------- C13 ---------------------------------- *)
\* The settle call k has returned.
SettleDone(k) == done[k].op = "settle" /\ HasReturned(k)
\* The change_entry(None) of settle call k, which is call k - 1, has
\* returned.
SettleEntryChangeDone(k) ==
    /\ k > 1
    /\ done[k - 1].op = "change_entry" /\ done[k - 1].path = None
    /\ done[k - 1].by = done[k].by /\ HasReturned(k - 1)
\* C13: settle first requests change_entry(None), whose call has returned
\* before the Settle interrupt is sent; it sends the Settle interrupt
\* whatever that call returned and returns when the wait for the
\* acknowledgement ended; and after settle() has returned the client's cached
\* entry is the inactive entry. The code drops the result of
\* change_entry(None), which leaves the cache as it was when it fails.
C13_SettledCacheInactive ==
    \A k \in Ids :
        SettleDone(k) =>
            /\ ~is_inactive(done[k].pre_entry) => SettleEntryChangeDone(k)
            /\ tasks[k].op = "settle" /\ tasks[k].ch \in {"sent", "txdrop"}
            /\ is_inactive(done[k].post_entry)

(* ------------------------------- C14 ---------------------------------- *)
\* The messages of compile attempt n, on all channels, in the order sent.
AttemptEvents(n) ==
    LET OfAttempt(e) == e.att = n
    IN  SelectSeq(events, OfAttempt)
\* The value of the watch point: the document last published, 0 for none.
Watched ==
    LET IsPublish(e) == e.kind = "Publish"
        pubs == SelectSeq(events, IsPublish)
    IN  IF pubs = <<>> THEN 0 ELSE pubs[Len(pubs)].doc
\* The document of the last attempt that succeeded, 0 for none.
LastSuccessDoc ==
    LET oks == {n \in 1..Len(attempts) : attempts[n].ok}
    IN  IF oks = {} THEN 0 ELSE attempts[CHOOSE n \in oks : \A k \in oks : k <= n].doc
\* The Diag message the diagnostics pipeline owes attempt n.
DiagOwed(n) ==
    Diag(IF attempts[n].inactive \/ attempts[n].afail THEN None
         ELSE Some(convert_diagnostics(attempts[n].errors, attempts[n].warnings)), n, 0)
\* C14: a compile attempt that fails sends Status(Compiling), then
\* Status(CompileError), then the one Diag message of the diagnostics
\* pipeline run on the errors it produced (with the warnings), and nothing
\* else: no publish on the watch point, whose value stays the last
\* successful document, and no OnTyped; the worker has not panicked and goes
\* on taking interrupts.
C14_FailedCompile ==
    /\ \A n \in 1..Len(attempts) :
          ~attempts[n].ok =>
              /\ AttemptEvents(n) =
                     <<Status("Compiling", n), Status("CompileError", n), DiagOwed(n)>>
              /\ attempts[n].errors # {}
              /\ ~attempts[n].panic
    /\ Watched = LastSuccessDoc
    /\ Len(attempts) > 0 => wstate # "panicked"
\* An attempt succeeded, the next failed with its errors and warnings
\* delivered, and the worker took the next edit and compiled again.
C14_Witness ==
    \E n \in 1..Len(attempts) :
        /\ n > 1 /\ attempts[n - 1].ok /\ ~attempts[n].ok
        /\ DiagOwed(n).diag = Some({"e1", "w1"})
        /\ Watched = n - 1
        /\ Len(attempts) > n

(* ------------------------------- C15 ---------------------------------- *)
\* The messages on the editor channel, in the order sent.
EditorEvents ==
    LET OnEditor(e) == e.ch = "editor"
    IN  SelectSeq(events, OnEditor)
\* C15: every compile attempt puts exactly three messages on the editor
\* channel, next to each other (each Status message is followed at once by
\* a message of its own attempt) and in this order: Status(Compiling), then
\* Status(CompileSuccess) or Status(CompileError) as the attempt ended, then
\* one Diag message; and every Status message is of a compile attempt: the
\* tasks of change_entry, clear_cache and collect_server_info, and settle,
\* send none.
C15_StatusOrdering ==
    LET ed == EditorEvents
    IN  /\ \A n \in 1..Len(attempts) :
              LET OfAttempt(e) == e.att = n
                  mine == SelectSeq(ed, OfAttempt)
              IN  /\ Len(mine) = 3
                  /\ mine[1] = Status("Compiling", n)
                  /\ mine[2] = Status(IF attempts[n].ok THEN "CompileSuccess"
                                      ELSE "CompileError", n)
                  /\ mine[3].kind = "Diag"
        /\ \A j \in 1..Len(ed) :
              ed[j].kind = "Status" =>
                  /\ ed[j].att \in 1..Len(attempts)
                  /\ ed[j].task = 0
                  /\ j < Len(ed) /\ ed[j + 1].att = ed[j].att
        /\ \A j \in 1..Len(ed) :
              ed[j].att = 0 =>
                  /\ ed[j].kind = "Diag"
                  /\ ed[j].task \in Ids
                  /\ tasks[ed[j].task].op = "change_entry"
\* A successful and a failed attempt with the clearing message of an
\* entry-change task between their triples.
C15_Witness ==
    \E i \in 1..Len(EditorEvents) :
        /\ i + 6 <= Len(EditorEvents)
        /\ EditorEvents[i].status = "Compiling"
        /\ EditorEvents[i + 3].att = 0
        /\ EditorEvents[i + 4].status = "Compiling"
        /\ attempts[EditorEvents[i].att].ok # attempts[EditorEvents[i + 4].att].ok

(* ------------------------------- C16 ---------------------------------- *)
\* C16: when the conversion of an attempt's diagnostics fails (run_analysis
\* returns an error), the attempt still delivers exactly one Diag message,
\* carrying None, and the failure is not propagated: the attempt returns Ok
\* when the engine returned a document and Err when it returned errors, as
\* an attempt whose conversion succeeded does.
C16_ConversionFailureDegrades ==
    /\ \A n \in 1..Len(attempts) :
          attempts[n].afail =>
              /\ DiagsOf(n) = <<Diag(None, n, 0)>>
              /\ ~attempts[n].panic
    /\ \A n \in 1..Len(attempts) :
          attempts[n].res = (IF attempts[n].ok THEN "Ok" ELSE "Err")
\* With an active entry under a root, the conversion failed in an attempt
\* that returned a document and in one that returned errors, and succeeded
\* in neither.
C16_Witness ==
    \E n, k \in 1..Len(attempts) :
        /\ attempts[n].afail /\ ~attempts[n].inactive /\ attempts[n].ok
        /\ attempts[k].afail /\ ~attempts[k].inactive /\ ~attempts[k].ok

(* ------------------------------- C17 ---------------------------------- *)
\* The Diag messages sent by the task of call k.
TaskDiags(k) ==
    LET ByTask(e) == e.kind = "Diag" /\ e.task = k
    IN  SelectSeq(events, ByTask)
\* The entry the change_entry call k asked the worker for.
Requested(k) == IF HasReturned(k) THEN done[k].next ELSE inflight[tasks[k].by].next
\* C17: an entry-change task whose new entry is inactive sends the clearing
\* message Diag(None) itself, once: in every state the task has been run
\* exactly when its message is on the editor channel, so no interrupt is
\* processed between the swap and the message; an entry-change task whose
\* new entry is active sends no Diag, and no other task sends one.
C17_ClearInsideSwapTask ==
    \A k \in Ids :
        /\ (tasks[k].op = "change_entry" /\ Submitted(k)) =>
               TaskDiags(k) = (IF Executed(k) /\ is_inactive(Requested(k))
                               THEN <<Diag(None, 0, k)>> ELSE <<>>)
        /\ (tasks[k].op # "change_entry" \/ ~Submitted(k)) => TaskDiags(k) = <<>>
\* A task swapped to the inactive entry and cleared, another swapped to an
\* active entry and sent nothing.
C17_Witness ==
    \E k, j \in Ids :
        /\ tasks[k].op = "change_entry" /\ Executed(k) /\ HasReturned(k)
        /\ is_inactive(done[k].next) /\ worker.actor_entry # done[k].next
        /\ tasks[j].op = "change_entry" /\ Executed(j) /\ HasReturned(j)
        /\ ~is_inactive(done[j].next) /\ worker.actor_entry = done[j].next

(* ------------------------------- C18 ---------------------------------- *)
\* The worker is about to run the closure of steal_world or steal_state.
AnalysisTaskNext ==
    /\ wstate = "running" /\ queue # <<>>
    /\ Head(queue).kind = "Task" /\ Head(queue).op \in AnalysisOps
\* The worker runs it: what run_analysis(f) returns, by the world's entry it
\* ran on, and whether f was invoked (an invoked f memoizes its query).
RunAnalysisStep ==
    (AnalysisTaskNext /\ execLog' # execLog) =>
        LET k == Head(queue).id
            e == worker.w_entry
            v == ret'[k]
        IN  /\ v.tag = k
            /\ main_id(e) = None => v.err = "main file is not set"
            /\ (main_id(e) # None /\ e.root = None) => v.err = "root is not set"
            /\ (main_id(e) # None /\ e.root # None) =>
                   v.err \in {"", "failed to get source", "failed to prepare env"}
            /\ v.ok = (v.err = "")
            /\ v.ok => "query" \in worker'.caches
            /\ ~v.ok => worker'.caches = worker.caches
\* steal_world and steal_state hand the closure's result to their caller.
AnalysisSurfaced ==
    \A k \in Ids :
        (done[k].op \in AnalysisOps /\ HasReturned(k) /\ done[k].res = "Ok") =>
            /\ done[k].val = ret[k]
            /\ ~done[k].val.ok => done[k].val.err # ""
\* C18: run_analysis(f) returns an error without invoking f when the world
\* has no main document ("main file is not set"), when its entry has no
\* root ("root is not set", another error), when the main source cannot be
\* loaded or the environment cannot be prepared; when all four checks pass f
\* is invoked and its result returned; and steal_world and steal_state
\* return that result or error to their caller.
C18_RunAnalysisPreconditions == []AnalysisSurfaced /\ [][RunAnalysisStep]_vars
\* One call ran f and got its result, another got "root is not set" after
\* the entry was changed to an untitled document.
C18_Witness ==
    \E k, j \in Ids :
        /\ done[k].op \in AnalysisOps /\ done[k].res = "Ok" /\ done[k].val.ok
        /\ "query" \in worker.caches
        /\ done[j].op \in AnalysisOps /\ done[j].res = "Ok"
        /\ done[j].val.err = "root is not set"

(* ------------------------------- C19 ---------------------------------- *)
\* C19: whenever no change_entry call is in progress, the client's cached
\* entry equals the entry held by the worker, the actor's and the world's,
\* whatever change_entry calls were made, those whose swap failed in the
\* worker included. The closure swaps the actor's entry before it knows
\* the result of mutate_entry.
C19_CacheMirrorsWorker ==
    (\A c \in Callers : ~Waiting(c)) =>
        /\ entry = worker.w_entry
        /\ entry = worker.actor_entry

(* ------------------------------- C20 ---------------------------------- *)
\* The wait on the channel of interrupt i can end: the value was sent or the
\* sender dropped, or the interrupt is in the queue of a worker that will
\* take it or drop it with the queue.
WaitCanEnd(i) ==
    \/ threaded_receive(tasks[i].ch).ready
    \/ InQueue(i) /\ wstate \in {"running", "settled"}
\* What a settle call finds when the queue rejects its Settle interrupt.
SettleRejection ==
    \A k \in Ids :
        (tasks[k].op = "settle" /\ tasks[k].acc = "rejected") =>
            /\ QueueClosed(wstate)
            /\ tasks[k].ch = "txdrop"
            /\ ~InQueue(k)
            /\ HasReturned(k) => (done[k].res = "Err" /\ done[k].kind = "recv")
\* C20: settle always terminates: a caller inside settle, waiting for its
\* entry change or for the acknowledgement, returns in the end; while it
\* waits, the wait can end; and when the worker's queue is closed as settle
\* sends the Settle interrupt (the worker has exited after an earlier
\* settle, or is gone), the send fails, the acknowledgement's sender is
\* dropped with the rejected message, nothing is queued, and settle returns
\* with the error of the wait, logged, not a result.
C20_SettleTerminates ==
    /\ [](\A c \in Callers :
             pc[c] \in {"settle_ce", "settle_wait"} => WaitCanEnd(inflight[c].id))
    /\ []SettleRejection
    /\ \A c \in Callers : (pc[c] \in {"settle_ce", "settle_wait"}) ~> (pc[c] = "idle")
\* A second settle: the first was acknowledged and the worker has exited;
\* the send of the second was rejected, and it has returned with the error.
C20_Witness ==
    \E j, k \in Ids :
        /\ j < k /\ wstate = "closed"
        /\ done[j].op = "settle" /\ done[j].res = "Ok"
        /\ done[k].op = "settle" /\ HasReturned(k)
        /\ tasks[k].acc = "rejected" /\ done[k].res = "Err"

====
